---- MODULE Spec2Model ----
(***************************************************************************)
(* Prescription orchestration backend: Backend/main.py and                 *)
(* Backend/maps_service_osm.py.                                            *)
(*                                                                         *)
(* Python values are tagged records ([t |-> "None"], [t |-> "list", ...]). *)
(* Coordinates are integers in units of 1e-4 degree, distances integers in *)
(* units of 0.01 km (the code rounds to two decimals).                     *)
(***************************************************************************)
EXTENDS Integers, Sequences, FiniteSets, TLC

VARIABLES
  pc,               \* position of the running operation
  op,               \* which operation is running
  args,             \* its arguments
  result,           \* return value of a helper run on its own
  temp_file,        \* main.py:85-87,151-153  the temp_<filename> file exists
  structured_data,  \* main.py:93
  calendar_status,  \* main.py:96
  lat, lng,         \* main.py:112 / main.py:163-164
  map_url,          \* main.py:104
  bot,              \* main.py:102
  agent_report,     \* main.py:103
  agent,            \* the PharmaAgent instance: "none", "open", "closed"
  effects,          \* collaborator calls made so far
  response          \* what the request handler gave back

vars == <<pc, op, args, result, temp_file, structured_data, calendar_status,
          lat, lng, map_url, bot, agent_report, agent, effects, response>>

----------------------------------------------------------------------------
(* Bounds *)

MaxTests  == 2   \* longest list of test names drawn
MaxTokens == 3   \* longest AI response, in tokens
MaxPlaces == 6   \* longest directory answer drawn for find_labs_osm alone
MaxPlacesReq == 1 \* longest directory answer drawn inside a request
MaxTestsReq == 1  \* longest test_names list sent to /find-labs

----------------------------------------------------------------------------
(* Python values *)

PyNone == [t |-> "None"]
PyStr(s) == [t |-> "str", chars |-> s]
PyList(s) == [t |-> "list", items |-> s]
PyNum(n) == [t |-> "num", n |-> n]

\* Coordinate arguments as they reach calculate_distance: a float, a string
\* holding a float (Nominatim sends strings), None, other text, nan, inf.
Num(n)    == [k |-> "num", v |-> n]
NumStr(n) == [k |-> "numstr", v |-> n]
None      == [k |-> "None", v |-> 0]
Text      == [k |-> "text", v |-> 0]
NaN       == [k |-> "nan", v |-> 0]
Inf       == [k |-> "inf", v |-> 0]

LatGrid == {0, 180, 450}
LonGrid == {0, 180, 450, 1800}

Abs(n) == IF n < 0 THEN -n ELSE n

\* round(c * r, 2) * 100 of maps_service_osm.py:7-13 for finite coordinates of
\* LatGrid x LonGrid, indexed by |lat2 - lat1| and |lon2 - lon1|; the values
\* are those the source function returns on the grid.
HaversineRow(dlat) ==
  CASE dlat = 0   -> [dl \in {0, 180, 270, 450, 1350, 1620, 1800} |->
                       CASE dl = 0 -> 0 [] dl = 180 -> 200 [] dl = 270 -> 300
                         [] dl = 450 -> 500 [] dl = 1350 -> 1501
                         [] dl = 1620 -> 1801 [] dl = 1800 -> 2002]
    [] dlat = 180 -> [dl \in {0, 180, 270, 450, 1350, 1620, 1800} |->
                       CASE dl = 0 -> 200 [] dl = 180 -> 283 [] dl = 270 -> 361
                         [] dl = 450 -> 539 [] dl = 1350 -> 1514
                         [] dl = 1620 -> 1812 [] dl = 1800 -> 2011]
    [] dlat = 270 -> [dl \in {0, 180, 270, 450, 1350, 1620, 1800} |->
                       CASE dl = 0 -> 300 [] dl = 180 -> 361 [] dl = 270 -> 425
                         [] dl = 450 -> 584 [] dl = 1350 -> 1531
                         [] dl = 1620 -> 1826 [] dl = 1800 -> 2024]
    [] dlat = 450 -> [dl \in {0, 180, 270, 450, 1350, 1620, 1800} |->
                       CASE dl = 0 -> 500 [] dl = 180 -> 539 [] dl = 270 -> 584
                         [] dl = 450 -> 708 [] dl = 1350 -> 1582
                         [] dl = 1620 -> 1870 [] dl = 1800 -> 2063]

Haversine(lat1, lon1, lat2, lon2) ==
  HaversineRow(Abs(lat2 - lat1))[Abs(lon2 - lon1)]

\* float(x): raises TypeError on None and ValueError on non-numeric text.
FloatRaises(x) == x.k \in {"None", "text"}
IsFinite(x) == x.k \in {"num", "numstr"}

\* maps_service_osm.py:4-15.  The result is a distance (Num) or nan.
\* math.sin / math.cos raise ValueError on an infinite argument; nan goes
\* through sin, cos, sqrt, asin and round(_, 2) unchanged.
calculate_distance(lat1, lon1, lat2, lon2) ==
  LET dlonInf == \/ (lon1.k = "inf" /\ IsFinite(lon2))
                 \/ (lon2.k = "inf" /\ IsFinite(lon1))
      raises  == \/ \E x \in {lat1, lon1, lat2, lon2} : FloatRaises(x)
                 \/ lat1.k = "inf" \/ lat2.k = "inf"
                 \/ dlonInf
  IN IF raises THEN Num(0)
     ELSE IF \E x \in {lat1, lon1, lat2, lon2} : ~IsFinite(x) THEN NaN
     ELSE Num(Haversine(lat1.v, lon1.v, lat2.v, lon2.v))

----------------------------------------------------------------------------
(* Strings are sequences of one-character strings *)

Lower(c) ==
  CASE c = "B" -> "b" [] c = "C" -> "c" [] c = "E" -> "e" [] c = "G" -> "g"
    [] c = "I" -> "i" [] c = "M" -> "m" [] c = "R" -> "r" [] c = "S" -> "s"
    [] c = "T" -> "t" [] c = "U" -> "u" [] c = "X" -> "x"
    [] OTHER -> c

\* str.lower()
lower(s) == [i \in 1..Len(s) |-> Lower(s[i])]

\* sub in s
Contains(s, sub) ==
  \E i \in 0..(Len(s) - Len(sub)) : SubSeq(s, i + 1, i + Len(sub)) = sub

RECURSIVE join(_, _)
\* sep.join(parts), parts a sequence of strings
join(sep, parts) ==
  IF parts = <<>> THEN <<>>
  ELSE IF Len(parts) = 1 THEN parts[1]
  ELSE parts[1] \o sep \o join(sep, Tail(parts))

XRay      == <<"X", "-", "R", "a", "y">>
BloodTest == <<"B", "l", "o", "o", "d", " ", "T", "e", "s", "t">>
CBC       == <<"C", "B", "C">>
MRI       == <<"M", "R", "I">>
Urine     == <<"U", "r", "i", "n", "e">>
CTScan    == <<"C", "T", " ", "S", "c", "a", "n">>
ECG       == <<"E", "C", "G">>

TestNames == {XRay, BloodTest, CBC, MRI, Urine, CTScan, ECG}

\* maps_service_osm.py:76-82, given the joined lower-case names
QueryTerm(tests_str) ==
  IF Contains(tests_str, <<"x", "-", "r", "a", "y">>)
       \/ Contains(tests_str, <<"s", "c", "a", "n">>)
    THEN "Diagnostic Centre"
  ELSE IF Contains(tests_str, <<"b", "l", "o", "o", "d">>)
    THEN "Pathology Lab"
  ELSE "Hospital"

----------------------------------------------------------------------------
(* find_labs_osm *)

RECURSIVE InsertByDistance(_, _)
\* x goes after every element whose distance_km is not greater than its own
InsertByDistance(x, s) ==
  IF s = <<>> THEN <<x>>
  ELSE IF x.distance_km < Head(s).distance_km THEN <<x>> \o s
  ELSE <<Head(s)>> \o InsertByDistance(x, Tail(s))

\* the list left in the directory's order
SortByDistance_Unsorted(s) == s

RECURSIVE SortByDistance(_)
\* list.sort(key=distance_km): a stable ascending sort (maps_service_osm.py:67)
SortByDistance(s) ==
  IF s = <<>> THEN <<>>
  ELSE InsertByDistance(s[Len(s)], SortByDistance(SubSeq(s, 1, Len(s) - 1)))

\* maps_service_osm.py:51  dist <= 15.0 (false for nan)
WithinRadius(dist) == dist.k = "num" /\ dist.v <= 1500

\* maps_service_osm.py:46  place.get("display_name", "").split(",")[0]; the
\* display name is its comma-separated parts, <<>> when the key is missing
PlaceName(place) ==
  IF place.display_name = <<>> THEN "" ELSE Head(place.display_name)

\* maps_service_osm.py:44-64  the entry appended for one place
LabEntry(lat0, lng0, place) ==
  [name         |-> PlaceName(place),
   full_address |-> place.display_name,
   lat          |-> place.lat,
   lon          |-> place.lon,
   distance_km  |-> calculate_distance(Num(lat0), Num(lng0), place.lat, place.lon).v,
   google_maps_link |-> [query |-> PlaceName(place),
                         query_place_id |-> <<place.lat, place.lon>>]]

RECURSIVE Candidates(_, _, _)
\* maps_service_osm.py:43-64  the loop over the directory's answer
Candidates(lat0, lng0, data) ==
  IF data = <<>> THEN <<>>
  ELSE LET place == Head(data)
           dist  == calculate_distance(Num(lat0), Num(lng0), place.lat, place.lon)
       IN (IF WithinRadius(dist) THEN <<LabEntry(lat0, lng0, place)>> ELSE <<>>)
            \o Candidates(lat0, lng0, Tail(data))

\* maps_service_osm.py:38-71  labs_list after the try block.  osm.ok is false
\* when requests.get or response.json() raises; a place that is not a JSON
\* object makes place.get raise inside the loop.
LabsList(lat0, lng0, osm) ==
  IF ~osm.ok THEN <<>>
  ELSE IF \E i \in 1..Len(osm.data) : ~osm.data[i].dict THEN <<>>
  ELSE SortByDistance(Candidates(lat0, lng0, osm.data))

\* maps_service_osm.py:102  labs_list[:5]
FirstFive(s) == SubSeq(s, 1, IF Len(s) < 5 THEN Len(s) ELSE 5)

NoLink == [kind |-> "empty"]

\* maps_service_osm.py:17-105.  test_names is a sequence of Python values;
\* " ".join raises TypeError when one of them is not a string.
find_labs_osm(lat0, lng0, test_names, osm) ==
  LET labs_list == LabsList(lat0, lng0, osm)
      tests_str == lower(join(<<" ">>, [i \in 1..Len(test_names) |-> test_names[i].chars]))
  IN IF \E i \in 1..Len(test_names) : test_names[i].t # "str"
       THEN [raised |-> TRUE]
     ELSE [raised |-> FALSE,
           labs   |-> FirstFive(labs_list),
           map_search_link |-> [kind |-> "search", query_term |-> QueryTerm(tests_str),
                                near |-> <<lat0, lng0>>],
           map_directions_link |->
             IF Len(labs_list) > 0
               THEN [kind |-> "dir", origin |-> <<lat0, lng0>>,
                     destination |-> <<labs_list[1].lat, labs_list[1].lon>>]
               ELSE NoLink]

----------------------------------------------------------------------------
(* parse_with_ai *)

PyDict(d) == [t |-> "dict", d |-> d]

\* bool(v)
Truthy(v) ==
  CASE v.t = "None" -> FALSE
    [] v.t = "list" -> v.items # <<>>
    [] v.t = "str"  -> v.chars # <<>>
    [] v.t = "num"  -> v.n # 0
    [] v.t = "dict" -> DOMAIN v.d # {}
    [] OTHER -> TRUE

\* dict.get(key, default)
Get(v, key, default) == IF key \in DOMAIN v.d THEN v.d[key] ELSE default

\* The AI response text is a sequence of tokens: the two code-fence markers,
\* white space, a complete JSON document, or other prose.
FenceJson == [tok |-> "fence_json"]   \* three backquotes and json
Fence     == [tok |-> "fence"]        \* three backquotes
Ws        == [tok |-> "ws"]
Prose     == [tok |-> "prose"]
Json(v)   == [tok |-> "json", value |-> v]

\* str.replace(marker, "")
Remove(text, marker) == SelectSeq(text, LAMBDA x : x # marker)

RECURSIVE LStrip(_)
LStrip(text) ==
  IF text # <<>> /\ Head(text) = Ws THEN LStrip(Tail(text)) ELSE text

RECURSIVE RStrip(_)
RStrip(text) ==
  IF text # <<>> /\ text[Len(text)] = Ws
    THEN RStrip(SubSeq(text, 1, Len(text) - 1)) ELSE text

\* str.strip()
Strip(text) == RStrip(LStrip(text))

\* main.py:72
CleanJson(text) == Strip(Remove(Remove(text, FenceJson), Fence))

\* json.loads accepts exactly one JSON document
LoadsOk(clean) == Len(clean) = 1 /\ clean[1].tok = "json"

\* main.py:76
Fallback ==
  PyDict([medicines |-> PyList(<<>>), tests |-> PyList(<<>>), next_visit |-> PyNone])

\* the try block entered only after the AI call: its exception leaves the function
parse_with_ai_Uncaught(ai) ==
  IF ai.raised THEN [t |-> "exception"]
  ELSE IF LoadsOk(CleanJson(ai.text)) THEN CleanJson(ai.text)[1].value
  ELSE Fallback

\* main.py:57-76.  ai.raised: model.generate_content (or response.text) raised.
parse_with_ai(ai) ==
  IF ai.raised THEN Fallback
  ELSE IF LoadsOk(CleanJson(ai.text)) THEN CleanJson(ai.text)[1].value
  ELSE Fallback

----------------------------------------------------------------------------
(* Values the collaborators can produce *)

Date == <<"2", "0", "2", "4", "-", "0", "1", "-", "0", "4">>
Med  == PyDict([name |-> PyStr(<<"P">>), dosage |-> PyStr(<<"6">>),
                frequency |-> PyStr(<<"1">>)])

DictOf(keys, m, t, n) ==
  PyDict([key \in keys |->
            CASE key = "medicines" -> m [] key = "tests" -> t [] OTHER -> n])

\* JSON objects the AI can send: each key present or not, each value of the
\* shape asked for, empty, null, or (tests) holding something that is no string
Objects ==
  { DictOf(keys, m, t, n) :
      keys \in SUBSET {"medicines", "tests", "next_visit"},
      m \in {PyList(<<>>), PyList(<<Med>>)},
      t \in {PyNone, PyList(<<>>), PyList(<<PyStr(XRay)>>), PyList(<<Med>>)},
      n \in {PyNone, PyStr(Date)} }

\* JSON documents that are no object
NonObjects == {PyList(<<>>), PyNum(5)}

Seqs(S, n) == UNION {[1..k -> S] : k \in 0..n}

\* what model.generate_content can do, inside a request
AIReplies ==
  {[raised |-> TRUE], [raised |-> FALSE, text |-> <<Prose>>]}
    \cup {[raised |-> FALSE, text |-> <<Json(v)>>] : v \in Objects \cup NonObjects}
    \cup {[raised |-> FALSE, text |-> <<FenceJson, Json(v), Fence>>] : v \in Objects}

\* the ip-api.com reply: the request failed, or status and coordinates
GeoReplies ==
  {[ok |-> FALSE, status |-> "fail", lat |-> 0, lon |-> 0]}
    \cup {[ok |-> TRUE, status |-> st, lat |-> a, lon |-> b] :
            st \in {"success", "fail"}, a \in LatGrid, b \in LonGrid}

\* main.py:44-54
get_auto_location(reply) ==
  IF reply.ok /\ reply.status = "success" THEN <<reply.lat, reply.lon>>
  ELSE <<0, 0>>

Place(name, plat, plon) ==
  [dict |-> TRUE, display_name |-> <<name, "Road">>, lat |-> plat, lon |-> plon]

\* records of the facility directory: A and B both 2.0 km from (0,0), C 5.0 km,
\* D 20.02 km, E without a name or a latitude, and an entry that is no JSON
\* object
PlaceA == Place("A", NumStr(180), NumStr(0))
PlaceB == Place("B", NumStr(0), NumStr(180))
PlaceC == Place("C", NumStr(450), NumStr(0))
PlaceD == Place("D", NumStr(0), NumStr(1800))
PlaceE == [dict |-> TRUE, display_name |-> <<>>, lat |-> None, lon |-> NumStr(180)]
PlaceF == [dict |-> FALSE, display_name |-> <<"error">>, lat |-> None, lon |-> None]

Places == {PlaceA, PlaceB, PlaceC, PlaceD, PlaceE, PlaceF}

OsmFailed == [ok |-> FALSE, data |-> <<>>]

OsmReplies(n) == {OsmFailed} \cup {[ok |-> TRUE, data |-> d] : d \in Seqs(Places, n)}

----------------------------------------------------------------------------
(* State before any operation runs *)

NoResponse == [status |-> "none"]
NoEffects  == [calendar |-> 0, locate |-> 0, searched |-> <<>>, opened |-> 0,
               purchase |-> "none"]

Idle ==
  /\ temp_file = FALSE
  /\ structured_data = PyNone
  /\ calendar_status = PyNone
  /\ lat = 0 /\ lng = 0
  /\ map_url = PyNone
  /\ bot = PyNone
  /\ agent_report = PyList(<<>>)
  /\ agent = "none"
  /\ effects = NoEffects
  /\ response = NoResponse
  /\ result = PyNone

Init ==
  /\ pc = "idle" /\ op = "none" /\ args = PyNone
  /\ Idle

\* an exception leaves the handler: the framework answers with an error
Failed(error) == [status |-> "error", error |-> error]

----------------------------------------------------------------------------
(* process_prescription, main.py:79-153 *)

\* main.py:80-87  the upload is copied to temp_<filename>
ProcessPrescription ==
  /\ pc = "idle"
  /\ \E fl \in BOOLEAN, priority \in {"price", "speed"} :
       args' = [find_labs |-> fl, priority |-> priority]
  /\ op' = "process_prescription"
  /\ temp_file' = TRUE
  /\ pc' = "parse"
  /\ UNCHANGED <<result, structured_data, calendar_status, lat, lng, map_url,
                 bot, agent_report, agent, effects, response>>

\* main.py:92-93
ParseStep ==
  /\ pc = "parse"
  /\ \E ai \in AIReplies : structured_data' = parse_with_ai(ai)
  /\ pc' = "calendar"
  /\ UNCHANGED <<op, args, result, temp_file, calendar_status, lat, lng, map_url,
                 bot, agent_report, agent, effects, response>>

\* add_checkup_event (calendar_service): gives back a status, of success or
\* of failure
CalendarStatuses == {[t |-> "status", created |-> TRUE], [t |-> "status", created |-> FALSE]}

\* main.py:96-99.  structured_data.get raises AttributeError when the AI's
\* document is no object.
CalendarStep ==
  /\ pc = "calendar"
  /\ IF structured_data.t # "dict"
       THEN /\ response' = Failed("AttributeError")
            /\ pc' = "finally"
            /\ UNCHANGED <<calendar_status, effects>>
     ELSE IF Truthy(Get(structured_data, "next_visit", PyNone))
       THEN /\ \E st \in CalendarStatuses : calendar_status' = st
            /\ effects' = [effects EXCEPT !.calendar = @ + 1]
            /\ pc' = "maps"
            /\ UNCHANGED response
     ELSE /\ pc' = "maps"
          /\ UNCHANGED <<calendar_status, effects, response>>
  /\ UNCHANGED <<op, args, result, temp_file, structured_data, lat, lng, map_url,
                 bot, agent_report, agent>>

\* main.py:108-109
detected_tests == Get(structured_data, "tests", PyList(<<>>))

\* the find_labs flag left out of the test
MapsWanted_IgnoresConsent == Truthy(detected_tests)

\* main.py:109  if detected_tests and find_labs
MapsWanted == Truthy(detected_tests) /\ args.find_labs

\* main.py:114  if lat != 0.0
OriginKnown(la, lo) == la # 0

\* main.py:102-114,126-127
LocateStep ==
  /\ pc = "maps"
  /\ IF MapsWanted
       THEN \E reply \in GeoReplies :
              /\ lat' = get_auto_location(reply)[1]
              /\ lng' = get_auto_location(reply)[2]
              /\ effects' = [effects EXCEPT !.locate = @ + 1]
              /\ pc' = IF OriginKnown(lat', lng') THEN "search" ELSE "buy"
       ELSE /\ pc' = "buy"
            /\ UNCHANGED <<lat, lng, effects>>
  /\ UNCHANGED <<op, args, result, temp_file, structured_data, calendar_status,
                 map_url, bot, agent_report, agent, response>>

\* main.py:118-120
MapUrl(map_data) ==
  IF map_data.map_directions_link # NoLink THEN map_data.map_directions_link
  ELSE map_data.map_search_link

\* main.py:115-122.  detected_tests is a non-empty list here.
SearchStep ==
  /\ pc = "search"
  /\ \E osm \in OsmReplies(MaxPlacesReq) :
       LET map_data == find_labs_osm(lat, lng, detected_tests.items, osm)
       IN /\ effects' = [effects EXCEPT !.searched = Append(@, <<lat, lng>>)]
          /\ IF map_data.raised
               THEN /\ response' = Failed("TypeError")
                    /\ pc' = "finally"
                    /\ UNCHANGED map_url
               ELSE /\ map_url' = MapUrl(map_data)
                    /\ pc' = "open"
                    /\ UNCHANGED response
  /\ UNCHANGED <<op, args, result, temp_file, structured_data, calendar_status,
                 lat, lng, bot, agent_report, agent>>

\* main.py:122-125  webbrowser.open: a browser was launched, none could be
\* (False), or webbrowser.Error
OpenStep ==
  /\ pc = "open"
  /\ effects' = [effects EXCEPT !.opened = @ + 1]
  /\ \E launched \in {"yes", "no", "Error"} :
       IF launched = "Error"
         THEN /\ response' = Failed("webbrowser.Error")
              /\ pc' = "finally"
         ELSE /\ pc' = "buy"
              /\ UNCHANGED response
  /\ UNCHANGED <<op, args, result, temp_file, structured_data, calendar_status,
                 lat, lng, map_url, bot, agent_report, agent>>

----------------------------------------------------------------------------
(* The purchase step, main.py:129-140 *)

\* what process_order gives back
Report == PyList(<<[t |-> "report", status |-> "Ordered"]>>)

\* main.py:130-133  PharmaAgent() either gives an agent or raises
ConstructStep ==
  /\ pc = "buy"
  /\ IF Truthy(Get(structured_data, "medicines", PyNone))
       THEN \E constructed \in BOOLEAN :
              IF constructed
                THEN /\ bot' = [t |-> "PharmaAgent"]
                     /\ agent' = "open"
                     /\ pc' = "order"
                     /\ UNCHANGED effects
                ELSE /\ pc' = "except"
                     /\ effects' = [effects EXCEPT !.purchase = "raised"]
                     /\ UNCHANGED <<bot, agent>>
       ELSE /\ pc' = "return"
            /\ UNCHANGED <<bot, agent, effects>>
  /\ UNCHANGED <<op, args, result, temp_file, structured_data, calendar_status,
                 lat, lng, map_url, agent_report, response>>

\* main.py:134
OrderStep ==
  /\ pc = "order"
  /\ \E returned \in BOOLEAN :
       IF returned
         THEN /\ agent_report' = Report
              /\ effects' = [effects EXCEPT !.purchase = "ordered"]
              /\ pc' = "close"
         ELSE /\ effects' = [effects EXCEPT !.purchase = "raised"]
              /\ pc' = "except"
              /\ UNCHANGED agent_report
  /\ UNCHANGED <<op, args, result, temp_file, structured_data, calendar_status,
                 lat, lng, map_url, bot, agent, response>>

\* main.py:137  bot.close() inside the try
CloseStep ==
  /\ pc = "close"
  /\ \E closed \in BOOLEAN :
       IF closed
         THEN /\ agent' = "closed"
              /\ pc' = "return"
         ELSE /\ pc' = "except"
              /\ UNCHANGED agent
  /\ UNCHANGED <<op, args, result, temp_file, structured_data, calendar_status,
                 lat, lng, map_url, bot, agent_report, effects, response>>

\* main.py:138-140  except Exception: print; if bot: bot.close()
ExceptStep ==
  /\ pc = "except"
  /\ IF Truthy(bot)
       THEN \E closed \in BOOLEAN :
              IF closed
                THEN /\ agent' = "closed"
                     /\ pc' = "return"
                     /\ UNCHANGED response
                ELSE /\ response' = Failed("close")
                     /\ pc' = "finally"
                     /\ UNCHANGED agent
       ELSE /\ pc' = "return"
            /\ UNCHANGED <<agent, response>>
  /\ UNCHANGED <<op, args, result, temp_file, structured_data, calendar_status,
                 lat, lng, map_url, bot, agent_report, effects>>

\* main.py:142-149
ReturnStep ==
  /\ pc = "return"
  /\ response' = [status         |-> "success",
                  tests_found    |-> Get(structured_data, "tests", PyList(<<>>)),
                  map_opened     |-> map_url,
                  calendar_event |-> calendar_status,
                  agent_report   |-> agent_report,
                  data           |-> structured_data]
  /\ pc' = "finally"
  /\ UNCHANGED <<op, args, result, temp_file, structured_data, calendar_status,
                 lat, lng, map_url, bot, agent_report, agent, effects>>

\* main.py:151-153
FinallyStep ==
  /\ pc = "finally"
  /\ temp_file' = FALSE
  /\ pc' = "done"
  /\ UNCHANGED <<op, args, result, structured_data, calendar_status,
                 lat, lng, map_url, bot, agent_report, agent, effects, response>>

----------------------------------------------------------------------------
(* find_labs_endpoint, main.py:156-176 *)

\* main.py:156-164  the request body: two floats and a list of strings
FindLabsEndpoint ==
  /\ pc = "idle"
  /\ \E la \in LatGrid, lo \in LonGrid,
        names \in Seqs({PyStr(n) : n \in TestNames}, MaxTestsReq) :
       /\ args' = [lat |-> la, lng |-> lo, test_names |-> names]
       /\ lat' = la
       /\ lng' = lo
  /\ op' = "find_labs"
  /\ pc' = "fl_locate"
  /\ UNCHANGED <<result, temp_file, structured_data, calendar_status, map_url,
                 bot, agent_report, agent, effects, response>>

\* main.py:166-167
FindLabsLocate ==
  /\ pc = "fl_locate"
  /\ IF lat = 0
       THEN \E reply \in GeoReplies :
              /\ lat' = get_auto_location(reply)[1]
              /\ lng' = get_auto_location(reply)[2]
              /\ effects' = [effects EXCEPT !.locate = @ + 1]
       ELSE UNCHANGED <<lat, lng, effects>>
  /\ pc' = "fl_search"
  /\ UNCHANGED <<op, args, result, temp_file, structured_data, calendar_status,
                 map_url, bot, agent_report, agent, response>>

\* main.py:169-176
FindLabsSearch ==
  /\ pc = "fl_search"
  /\ \E osm \in OsmReplies(MaxPlacesReq) :
       LET result_data == find_labs_osm(lat, lng, args.test_names, osm)
       IN response' = [status           |-> "success",
                       location_used    |-> [lat |-> lat, lng |-> lng],
                       view_map_url     |-> result_data.map_search_link,
                       navigate_now_url |-> result_data.map_directions_link]
  /\ effects' = [effects EXCEPT !.searched = Append(@, <<lat, lng>>)]
  /\ pc' = "done"
  /\ UNCHANGED <<op, args, result, temp_file, structured_data, calendar_status,
                 lat, lng, map_url, bot, agent_report, agent>>

Next ==
  \/ ProcessPrescription
  \/ ParseStep
  \/ CalendarStep
  \/ LocateStep
  \/ SearchStep
  \/ OpenStep
  \/ ConstructStep
  \/ OrderStep
  \/ CloseStep
  \/ ExceptStep
  \/ ReturnStep
  \/ FinallyStep
  \/ FindLabsEndpoint
  \/ FindLabsLocate
  \/ FindLabsSearch

Spec == Init /\ [][Next]_vars

----------------------------------------------------------------------------
(* The helpers run on their own, on arguments drawn by the initial state *)

Coordinates(grid) ==
  {None, Text, NaN, Inf} \cup {Num(g) : g \in grid} \cup {NumStr(g) : g \in grid \ {0}}

InitDistance ==
  /\ pc = "call" /\ op = "calculate_distance"
  /\ args \in [lat1 : Coordinates(LatGrid), lon1 : Coordinates(LonGrid),
               lat2 : Coordinates(LatGrid), lon2 : Coordinates(LonGrid)]
  /\ Idle

CallDistance ==
  /\ pc = "call" /\ op = "calculate_distance"
  /\ result' = calculate_distance(args.lat1, args.lon1, args.lat2, args.lon2)
  /\ pc' = "returned"
  /\ UNCHANGED <<op, args, temp_file, structured_data, calendar_status, lat, lng,
                 map_url, bot, agent_report, agent, effects, response>>

SpecDistance == InitDistance /\ [][CallDistance]_vars

\* the directory's answer, when find_labs_osm is run on test names alone
InitIntent ==
  /\ pc = "call" /\ op = "find_labs_osm"
  /\ \E names \in Seqs({PyStr(n) : n \in TestNames}, MaxTests),
        osm \in {OsmFailed, [ok |-> TRUE, data |-> <<PlaceA>>]} :
       args = [lat |-> 180, lng |-> 180, test_names |-> names, osm |-> osm]
  /\ Idle

InitRank ==
  /\ pc = "call" /\ op = "find_labs_osm"
  /\ \E la \in {0, 180}, osm \in OsmReplies(MaxPlaces) :
       args = [lat |-> la, lng |-> 0, test_names |-> <<>>, osm |-> osm]
  /\ Idle

CallFindLabs ==
  /\ pc = "call" /\ op = "find_labs_osm"
  /\ result' = find_labs_osm(args.lat, args.lng, args.test_names, args.osm)
  /\ pc' = "returned"
  /\ UNCHANGED <<op, args, temp_file, structured_data, calendar_status, lat, lng,
                 map_url, bot, agent_report, agent, effects, response>>

SpecIntent == InitIntent /\ [][CallFindLabs]_vars
SpecRank   == InitRank /\ [][CallFindLabs]_vars

\* documents the AI can send, for parse_with_ai on its own
Documents ==
  { DictOf({"medicines", "tests", "next_visit"}, PyList(<<Med>>),
           PyList(<<PyStr(XRay)>>), PyStr(Date)),
    DictOf({}, PyNone, PyNone, PyNone),
    PyList(<<>>), PyNum(5) }

Tokens == {FenceJson, Fence, Ws, Prose} \cup {Json(v) : v \in Documents}

InitParse ==
  /\ pc = "call" /\ op = "parse_with_ai"
  /\ \E ai \in {[raised |-> TRUE]}
          \cup {[raised |-> FALSE, text |-> text] : text \in Seqs(Tokens, MaxTokens)} :
       args = [ai |-> ai]
  /\ Idle

CallParse ==
  /\ pc = "call" /\ op = "parse_with_ai"
  /\ result' = parse_with_ai(args.ai)
  /\ pc' = "returned"
  /\ UNCHANGED <<op, args, temp_file, structured_data, calendar_status, lat, lng,
                 map_url, bot, agent_report, agent, effects, response>>

SpecParse == InitParse /\ [][CallParse]_vars

----------------------------------------------------------------------------
(* The purchase step's claims *)

Finished == op = "process_prescription" /\ pc = "done"

\* C1: when the process-prescription request has returned or failed, every
\* purchasing agent that was constructed has been released: close was called
\* on it and completed.
C1_AgentReleased == Finished => agent # "open"

\* C2: when medicines is non-empty and constructing the agent or process_order
\* raised, the returned agent_report holds an entry with status
\* "Agent Crashed" and an error field.
C2_CrashReported ==
  (Finished /\ response.status = "success" /\ effects.purchase = "raised")
    => \E i \in 1..Len(response.agent_report.items) :
         /\ response.agent_report.items[i].status = "Agent Crashed"
         /\ "error" \in DOMAIN response.agent_report.items[i]

----------------------------------------------------------------------------
(* The pipeline's claims *)

CalendarFailed == calendar_status = [t |-> "status", created |-> FALSE]

\* C3: when next_visit is present and the calendar collaborator fails, the
\* failure is the calendar status and the pipeline goes on: the facility
\* search runs when tests is non-empty and find_labs is true, the purchase
\* step runs when medicines is non-empty, and the request returns a result.
C3_CalendarFailureTolerated ==
  (Finished /\ CalendarFailed)
    => /\ response.status = "success"
       /\ response.calendar_event = calendar_status
       /\ MapsWanted => effects.locate > 0
       /\ Truthy(Get(structured_data, "medicines", PyNone))
            => (agent # "none" \/ effects.purchase # "none")

\* C4: whatever the collaborators do after OCR, the process-prescription
\* request completes with a result whose status is "success".
C4_AlwaysSuccess == Finished => response.status = "success"

\* C5: in both request operations find_labs_osm is never called with the
\* origin (0,0), and an origin is treated as unknown only when it is (0,0):
\* a located origin other than (0,0) is searched.
C5_NoSearchAtSentinel ==
  /\ \A i \in 1..Len(effects.searched) : effects.searched[i] # <<0, 0>>
  /\ (Finished /\ effects.locate > 0 /\ <<lat, lng>> # <<0, 0>>)
       => effects.searched # <<>>

NoTests == structured_data.t # "dict" \/ ~Truthy(detected_tests)

\* C6: in process-prescription, when find_labs is false, or tests is empty or
\* missing, the geolocation service and the facility search are not called,
\* no browser is opened, and the result's map_opened is empty.
C6_NoSearchUnlessWanted ==
  (op = "process_prescription" /\ (~args.find_labs \/ NoTests))
    => /\ effects.locate = 0
       /\ effects.searched = <<>>
       /\ effects.opened = 0
       /\ response.status = "success" => response.map_opened = PyNone

\* find_labs is false, tests were detected, and the request returned
C6_Witness ==
  /\ Finished /\ response.status = "success"
  /\ ~args.find_labs /\ Truthy(detected_tests)
  /\ response.map_opened = PyNone
  /\ effects.locate = 0 /\ effects.calendar = 1

----------------------------------------------------------------------------
(* find_labs_osm's claims *)

Returned == pc = "returned"

\* the test names of a find_labs_osm call, joined and lower-cased
JoinedNames ==
  lower(join(<<" ">>, [i \in 1..Len(args.test_names) |-> args.test_names[i].chars]))

HasAny(str, words) == \E w \in words : Contains(str, w)

\* the rule of the specification
selectIntent(str) ==
  IF HasAny(str, {<<"x", "-", "r", "a", "y">>, <<"s", "c", "a", "n">>, <<"m", "r", "i">>})
    THEN "Diagnostic Centre"
  ELSE IF HasAny(str, {<<"b", "l", "o", "o", "d">>, <<"c", "b", "c">>,
                       <<"u", "r", "i", "n", "e">>})
    THEN "Pathology Lab"
  ELSE "Hospital"

\* C7: the query term find_labs_osm picks equals the reference rule on the
\* joined, lower-cased test names: Diagnostic Centre for x-ray, scan or mri,
\* else Pathology Lab for blood, cbc or urine, else Hospital.
C7_IntentRule ==
  (Returned /\ op = "find_labs_osm")
    => result.map_search_link.query_term = selectIntent(JoinedNames)

\* the directory answered with a list of facility records
Answered ==
  args.osm.ok /\ \A i \in 1..Len(args.osm.data) : args.osm.data[i].dict

RECURSIVE Distances(_, _, _)
\* distances of the answer's records from the origin, by position
Distances(lat0, lng0, data) ==
  IF data = <<>> THEN <<>>
  ELSE <<calculate_distance(Num(lat0), Num(lng0), Head(data).lat, Head(data).lon)>>
         \o Distances(lat0, lng0, Tail(data))

\* C8: the list find_labs_osm returns has at most 5 entries, each with its
\* distance from the origin and that distance at most 15.0, in non-decreasing
\* order of distance with ties in the directory's order; it is exactly the
\* nearest retained records; it is empty when the directory request fails.
\* before counts the retained records that come before record i: the nearer
\* ones, and the equally near ones the directory listed earlier.
C8_RankedLabs ==
  (Returned /\ op = "find_labs_osm")
    => LET labs == result.labs
           data == args.osm.data
           dist == Distances(args.lat, args.lng, args.osm.data)
           retained == {i \in 1..Len(data) : dist[i].k = "num" /\ dist[i].v <= 1500}
       IN /\ Len(labs) <= 5
          /\ \A i \in 1..Len(labs) : labs[i].distance_km <= 1500
          /\ \A i \in 1..(Len(labs) - 1) : labs[i].distance_km <= labs[i + 1].distance_km
          /\ ~Answered => labs = <<>>
          /\ Answered =>
               /\ Len(labs) = IF Cardinality(retained) < 5 THEN Cardinality(retained) ELSE 5
               /\ \A i \in retained :
                    LET before == Cardinality({j \in retained :
                                                 \/ dist[j].v < dist[i].v
                                                 \/ dist[j].v = dist[i].v /\ j < i})
                    IN before < 5 =>
                         /\ labs[before + 1].distance_km = dist[i].v
                         /\ labs[before + 1].lat = data[i].lat
                         /\ labs[before + 1].lon = data[i].lon
                         /\ labs[before + 1].full_address = data[i].display_name

\* records at 5 km, 20 km and 2 km give the 2 km and the 5 km record
C8_Witness ==
  /\ Returned /\ op = "find_labs_osm"
  /\ args.lat = 0 /\ args.lng = 0
  /\ args.osm = [ok |-> TRUE, data |-> <<PlaceC, PlaceD, PlaceA>>]
  /\ Len(result.labs) = 2
  /\ result.labs[1].name = "A" /\ result.labs[1].distance_km = 200
  /\ result.labs[2].name = "C" /\ result.labs[2].distance_km = 500

\* more than five records within the radius, two of them equally near
C8_WitnessTruncated ==
  /\ Returned /\ op = "find_labs_osm"
  /\ Answered /\ Len(args.osm.data) > 5
  /\ Len(result.labs) = 5
  /\ \E i \in 1..4 : /\ result.labs[i].distance_km = result.labs[i + 1].distance_km
                     /\ result.labs[i].name = "B" /\ result.labs[i + 1].name = "A"

----------------------------------------------------------------------------
(* parse_with_ai's claims *)

\* the AI call raised, or what is left of its text is no JSON document
ParseFails == args.ai.raised \/ ~LoadsOk(CleanJson(args.ai.text))

IsFixedRecord(v) ==
  /\ v.t = "dict"
  /\ DOMAIN v.d = {"medicines", "tests", "next_visit"}
  /\ v.d["medicines"] = PyList(<<>>)
  /\ v.d["tests"] = PyList(<<>>)
  /\ v.d["next_visit"] = PyNone

----------------------------------------------------------------------------
(* calculate_distance's claims *)

Malformed(x) == x.k \in {"None", "text", "nan"}
WellFormed(x) == x.k \in {"num", "numstr"}

\* C10: calculate_distance gives exactly 0.0 whenever one of its four
\* arguments is missing, non-numeric or NaN, and a non-negative number when
\* all four are well-formed.
C10_ZeroOnMalformed ==
  (Returned /\ op = "calculate_distance")
    => LET given == {args.lat1, args.lon1, args.lat2, args.lon2}
       IN /\ (\E x \in given : Malformed(x)) => result = Num(0)
          /\ (\A x \in given : WellFormed(x)) => result.k = "num" /\ result.v >= 0

====
